---- MODULE Spec2Model ----
(***************************************************************************)
(* Session management of cloned_it: the in-process User model              *)
(* (app/models/user.py over app/utils/datastore_client.py), the session    *)
(* Cloud Functions (functions/*_session/main.py, reached through           *)
(* app/utils/session_client.py) and the login/logout routes                *)
(* (app/auth/routes.py), all acting on one Datastore kind "Session".       *)
(*                                                                         *)
(* Time is counted in days on a single clock.  A session id is a fresh     *)
(* number (secrets.token_urlsafe(32) never repeats).  In-process requests  *)
(* always carry a remote address; the User-Agent header is optional.       *)
(***************************************************************************)
EXTENDS Integers, Sequences, FiniteSets, TLC

\* ------------------------------------------------------------------ bounds
MaxSessions == 2
MaxTicks == 2
\* the sessions created in the runs with interleaved validations
ConcSessions == 1

\* ------------------------------------------------------- program constants
SESSION_TTL_DAYS == 30
\* len(secrets.token_urlsafe(32)), and the characters of it the audit log keeps
TOKEN_LEN == 43
SESSION_ID_PARTIAL_LEN == 8
\* cleanup_old_sessions: the retention in days and the size of a delete batch
RETENTION_DAYS == 7
BATCH_SIZE == 500

None == "None"

SIDs == 1..MaxSessions
TickSteps == {1, SESSION_TTL_DAYS}

IPs == {"1.2.3.4", "9.9.9.9"}
UAs == {"TestAgent", "OtherAgent"}

\* hashlib.sha256(x.encode()).hexdigest()[:16] on the inputs of the model
sha256_16(x) ==
  CASE x = "" -> "e3b0c44298fc1c14"
    [] x = "1.2.3.4" -> "6694f83c9f476da3"
    [] x = "9.9.9.9" -> "1a22570d6105dfec"
    [] x = "TestAgent" -> "81d87514fb97bb2a"
    [] x = "OtherAgent" -> "6ae509a7db30af4a"

\* Python truthiness of an optional string
Truthy(x) == x # None /\ x # ""

\* The identity-provider claims handed to Create (user_id, email, name, picture)
Profiles ==
  { [user_id |-> "u1", email |-> "a@x.org", name |-> "Ann", picture |-> "pic1"],
    [user_id |-> "u2", email |-> "b@x.org", name |-> "Bob", picture |-> None] }

NoIdent == [user_id |-> None, email |-> None, name |-> None, picture |-> None]

\* A request as the in-process model sees it: no request object at all, or
\* remote_addr plus an optional User-Agent header.  The Cloud Functions take
\* optional ip_address / user_agent JSON fields.
NoRequest == [present |-> FALSE, ip |-> None, ua |-> None]
Req(ip, ua) == [present |-> TRUE, ip |-> ip, ua |-> ua]
AppRequests == {NoRequest} \cup {Req(ip, ua) : ip \in IPs, ua \in UAs \cup {None}}
CfRequests == {Req(ip, ua) : ip \in IPs \cup {None}, ua \in UAs \cup {None}}

Impls == {"app", "cf"}
RequestsOf(impl) == IF impl = "app" THEN AppRequests ELSE CfRequests
\* The requests sessions are created from: one client, with or without a
\* User-Agent, or no binding data at all
CreateRequestsOf(impl) ==
  {r \in RequestsOf(impl) : r.ip \in {None, "1.2.3.4"} /\ r.ua \in {None, "TestAgent"}
                             /\ (r.ip = None => r.ua = None)}

Reasons == {"logout", "security_violation"}

NullRec ==
  [user_id |-> None, email |-> None, name |-> None, picture |-> None,
   created_at |-> 0, last_active |-> 0, expires_at |-> 0,
   ip_hash |-> None, ua_hash |-> None]

NoEntity == [found |-> FALSE, rec |-> NullRec]

\* ------------------------------------------------------------ the Datastore
db_get(st, key) ==
  IF key \in DOMAIN st THEN [found |-> TRUE, rec |-> st[key]] ELSE NoEntity

\* A put that keeps one session per user: C17 tells it from db_put
db_put_single(st, key, rec) ==
  [k \in {j \in DOMAIN st : st[j].user_id # rec.user_id} \cup {key} |->
     IF k = key THEN rec ELSE st[k]]

db_put(st, key, rec) ==
  [k \in DOMAIN st \cup {key} |-> IF k = key THEN rec ELSE st[k]]

db_delete(st, key) == [k \in DOMAIN st \ {key} |-> st[k]]

\* app/utils/datastore_client.py: every helper swallows the store's exception
get_entity(st, name, fail) == IF fail THEN NoEntity ELSE db_get(st, name)

create_entity(st, data, name, fail) == IF fail THEN st ELSE db_put(st, name, data)

\* An update that also renews the session: C19 tells it from update_entity
update_entity_sliding(st, name, la, fail) ==
  IF fail \/ name \notin DOMAIN st THEN st
  ELSE db_put(st, name, [st[name] EXCEPT !.last_active = la,
                                         !.expires_at = la + SESSION_TTL_DAYS])

update_entity(st, name, la, fail) ==
  IF fail \/ name \notin DOMAIN st THEN st
  ELSE db_put(st, name, [st[name] EXCEPT !.last_active = la])

delete_entity(st, name, fail) ==
  IF fail THEN [store |-> st, ok |-> FALSE]
  ELSE [store |-> db_delete(st, name), ok |-> TRUE]

\* ------------------------------------------------------------ return values
Ret(kind, status, reason, ident, sid, flag) ==
  [kind |-> kind, status |-> status, reason |-> reason, ident |-> ident,
   sid |-> sid, flag |-> flag]
RetNone == Ret("None", 0, None, NoIdent, 0, FALSE)
RetUser(ident) == Ret("User", 0, None, ident, 0, FALSE)
RetRaise(exc) == Ret("raise", 0, exc, NoIdent, 0, FALSE)
RetSid(sid) == Ret("str", 0, None, NoIdent, sid, FALSE)
RetBool(b) == Ret("bool", 0, None, NoIdent, 0, b)
RetHttp(status, reason, ident, sid, flag) == Ret("http", status, reason, ident, sid, flag)

\* A log record.  sid, chars: the session id it names (0: none) and how many
\* characters of the id it shows; ip: the raw client address in it
Event(type, user_id, reason) ==
  [type |-> type, user_id |-> user_id, reason |-> reason, sid |-> 0, chars |-> 0,
   ip |-> None]

\* _get_request_context: inside a request the record gets request.remote_addr
get_request_context(e, req) == [e EXCEPT !.ip = IF req.present THEN req.ip ELSE None]

\* log_session_event: the partial session id, then the request context
log_session_event(e, sid, req) ==
  get_request_context(
    [e EXCEPT !.sid = sid,
              !.chars = IF TOKEN_LEN > SESSION_ID_PARTIAL_LEN
                        THEN SESSION_ID_PARTIAL_LEN ELSE 0],
    req)

\* log_security_violation: the request context, then session_id_partial =
\* session_id[:8] + "..." from the caller
log_security_violation(e, sid, req) ==
  [get_request_context(e, req) EXCEPT !.sid = sid, !.chars = SESSION_ID_PARTIAL_LEN]

\* A line of the application logger written by app/utils/datastore_client.py:
\* it names the entity in full
LogLine(what, name) ==
  [type |-> what, user_id |-> None, reason |-> None, sid |-> name,
   chars |-> IF name = 0 THEN 0 ELSE TOKEN_LEN, ip |-> None]

\* A line a Cloud Function writes to its output, with session_id[:8]
Stdout(type, user_id, reason, sid) ==
  [type |-> type, user_id |-> user_id, reason |-> reason, sid |-> sid,
   chars |-> SESSION_ID_PARTIAL_LEN, ip |-> None]

\* The effect of a call: the store, what it returns, the audit events and the
\* application log lines it writes, and the calls it makes to the Datastore
\* client ("get", "put", "delete", "query") and to the audit log or the
\* function's output ("emit"), in order
OutL(st, ret, events, logs) ==
  [store |-> st, ret |-> ret, events |-> events, logs |-> logs, calls |-> <<>>]
WithCalls(out, calls) == [out EXCEPT !.calls = calls]
Out(st, ret, events) == OutL(st, ret, events, <<>>)

\* The Datastore calls of the datastore_client helpers: update_entity reads
\* the entity again before it puts it
get_entity_calls == <<"get">>
create_entity_calls == <<"put">>
update_entity_calls(st, name, fail) ==
  IF fail \/ name \notin DOMAIN st THEN <<"get">> ELSE <<"get", "put">>
delete_entity_calls == <<"delete">>

\* The log lines of the datastore_client helpers
get_entity_log(name) == <<LogLine("get_entity", name)>>
create_entity_log(name, fail) == <<LogLine("create_entity", IF fail THEN 0 ELSE name)>>
update_entity_log(name) == <<LogLine("update_entity", name)>>
delete_entity_log(name) == <<LogLine("delete_entity", name)>>

\* A faulty User, with email and name exchanged: C5 tells it from IdentOf
IdentOf_swapped(rec) ==
  [user_id |-> rec.user_id, email |-> rec.name, name |-> rec.email,
   picture |-> rec.picture]

\* The User built from a session entity
IdentOf(rec) ==
  [user_id |-> rec.user_id, email |-> rec.email, name |-> rec.name,
   picture |-> rec.picture]

\* SecurityEventType (app/utils/logging/security_logger.py): the names the
\* class defines.  Reading any other attribute raises AttributeError.
SecurityEventTypes ==
  {"LOGIN_ATTEMPT", "LOGIN_SUCCESS", "LOGIN_FAILURE", "LOGOUT", "SESSION_CREATED",
   "SESSION_EXPIRED", "ACCOUNT_CREATED", "ACCOUNT_DELETED", "ACCOUNT_LOCKED",
   "ACCESS_GRANTED", "ACCESS_DENIED", "BRUTE_FORCE_DETECTED", "INVALID_TOKEN",
   "CSRF_VIOLATION", "SUSPICIOUS_ACTIVITY", "OAUTH_INITIATED", "OAUTH_CALLBACK",
   "OAUTH_TOKEN_EXCHANGE", "OAUTH_FAILURE"}

HasEventType(n) == n \in SecurityEventTypes

\* ------------------------------------------- app/models/user.py (in-process)
\* User.create_session: the result of create_entity is not looked at
\* and the clock is read three times: t1 for created_at, t2 for last_active,
\* t3 for expires_at
User_create_session_at(st, sid, prof, req, t1, t2, t3, fail) ==
  LET ip_hash == IF req.present THEN sha256_16(req.ip) ELSE None
      ua_hash == IF req.present
                 THEN sha256_16(IF req.ua = None THEN "" ELSE req.ua)
                 ELSE None
      session_data ==
        [user_id |-> prof.user_id, email |-> prof.email, name |-> prof.name,
         picture |-> prof.picture, created_at |-> t1, last_active |-> t2,
         expires_at |-> t3 + SESSION_TTL_DAYS, ip_hash |-> ip_hash,
         ua_hash |-> ua_hash]
  IN WithCalls(
       OutL(create_entity(st, session_data, sid, fail), RetSid(sid),
            <<log_session_event(Event("session_created", prof.user_id, None), sid, req)>>,
            create_entity_log(sid, fail)),
       create_entity_calls \o <<"emit">>)

\* User.create_session while the clock stands at t
User_create_session(st, sid, prof, req, t, fail) ==
  User_create_session_at(st, sid, prof, req, t, t, t, fail)

\* A faulty expiry test, which notices the expiry a day late: C1 tells it from
\* IsExpired
IsExpired_late(expires_at, t) == expires_at + 1 < t

\* The expiry test of both validate implementations (strict)
IsExpired(expires_at, t) == expires_at < t

\* The path a validation takes once it has read the session: the checks in
\* the order of the code, the first that fails decides
app_path(session, req, t) ==
  LET rec == session.rec
      current_ip_hash == sha256_16(req.ip)
      current_ua_hash == sha256_16(IF req.ua = None THEN "" ELSE req.ua)
  IN IF ~session.found THEN "not_found"
     ELSE IF IsExpired(rec.expires_at, t) THEN "expired"
     ELSE IF req.present /\ Truthy(rec.ip_hash) /\ rec.ip_hash # current_ip_hash
       THEN "ip_mismatch"
     ELSE IF req.present /\ Truthy(rec.ua_hash) /\ rec.ua_hash # current_ua_hash
       THEN "user_agent_mismatch"
     ELSE "touch"

\* log_security_violation(violation_type=SecurityEventType.SESSION_HIJACK_ATTEMPT, ...)
\* after the session was deleted: the attribute is read when the call is made
HijackReport(rec, what) ==
  IF HasEventType("SESSION_HIJACK_ATTEMPT")
  THEN [ret |-> RetNone, events |-> <<Event("session_hijack_attempt", rec.user_id, what)>>]
  ELSE [ret |-> RetRaise("AttributeError"), events |-> <<>>]

\* What User.validate_session returns and logs at the end of each path
app_result(path, rec) ==
  CASE path = "not_found" -> [ret |-> RetNone, events |-> <<>>]
    [] path = "expired" ->
         [ret |-> RetNone, events |-> <<Event("session_expired", rec.user_id, None)>>]
    [] path = "ip_mismatch" -> HijackReport(rec, path)
    [] path = "user_agent_mismatch" -> HijackReport(rec, path)
    [] path = "touch" -> [ret |-> RetUser(IdentOf(rec)), events |-> <<>>]

\* The audit events of a validation as log_session_event and
\* log_security_violation write them
app_events(r, sid, req) ==
  IF r.events = <<>> THEN <<>>
  ELSE IF r.events[1].type = "session_expired"
    THEN <<log_session_event(r.events[1], sid, req)>>
  ELSE <<log_security_violation(r.events[1], sid, req)>>

\* A rejection that reports first, so that a report which raises leaves the
\* session stored: C30 tells it from reject_session
reject_session_report_first(st, sid, r, fail) ==
  IF r.ret.kind = "raise" THEN [store |-> st, ret |-> r.ret, calls |-> <<"emit">>]
  ELSE [store |-> delete_entity(st, sid, fail).store, ret |-> r.ret,
        calls |-> <<"emit">> \o delete_entity_calls]

\* The end of a rejecting path of User.validate_session: delete_entity, then
\* the report r (log_session_event or log_security_violation)
reject_session(st, sid, r, fail) ==
  [store |-> delete_entity(st, sid, fail).store, ret |-> r.ret,
   calls |-> delete_entity_calls \o <<"emit">>]

User_validate_session(st, sid, req, t, fail) ==
  LET session == get_entity(st, sid, fail)
      path == app_path(session, req, t)
      r == app_result(path, session.rec)
      st2 == CASE path = "not_found" -> st
               [] path = "touch" -> update_entity(st, sid, t, fail)
               [] OTHER -> reject_session(st, sid, r, fail).store
      events == app_events(r, sid, req)
      logs == get_entity_log(sid)
              \o (CASE path = "not_found" -> <<>>
                    [] path = "touch" -> update_entity_log(sid)
                    [] OTHER -> delete_entity_log(sid))
      calls == get_entity_calls
               \o (CASE path = "not_found" -> <<>>
                     [] path = "touch" -> update_entity_calls(st, sid, fail)
                     [] OTHER -> reject_session(st, sid, r, fail).calls)
  IN WithCalls(OutL(st2, r.ret, events, logs), calls)

\* User.delete_session: the audit event is built before the delete
User_delete_session(st, sid, reason, fail) ==
  LET session == get_entity(st, sid, fail)
      d == delete_entity(st, sid, fail)
  IN IF session.found /\ ~HasEventType("SESSION_DELETED")
     THEN WithCalls(OutL(st, RetRaise("AttributeError"), <<>>, get_entity_log(sid)),
                    get_entity_calls \o <<"emit">>)
     ELSE WithCalls(
            OutL(d.store, RetBool(d.ok),
                 IF session.found
                 THEN <<log_session_event(Event("session_deleted", session.rec.user_id, reason),
                                          sid, NoRequest)>>
                 ELSE <<>>,
                 get_entity_log(sid) \o delete_entity_log(sid)),
            get_entity_calls \o (IF session.found THEN <<"emit">> ELSE <<>>)
              \o delete_entity_calls)

\* A query that does not filter on expires_at: C11 tells it from ActiveSessions
ActiveSessions_any(st, user_id, t) ==
  {s \in DOMAIN st : st[s].user_id = user_id}

\* The query of User.get and of get_user_session: the sessions of user_id with
\* expires_at > now
ActiveSessions(st, user_id, t) ==
  {s \in DOMAIN st : st[s].user_id = user_id /\ st[s].expires_at > t}

\* User.get: is a User returned (the query finds a session; an exception of
\* the store is caught)
User_get(st, user_id, t, fail) ==
  ~fail /\ ActiveSessions(st, user_id, t) # {}

\* The entity fetch(limit=1) yields: the query is ordered by expires_at, the
\* property of its inequality filter
FirstActive(st, user_id, t) ==
  CHOOSE s \in ActiveSessions(st, user_id, t) :
    \A o \in ActiveSessions(st, user_id, t) :
      \/ st[s].expires_at < st[o].expires_at
      \/ (st[s].expires_at = st[o].expires_at /\ s <= o)

\* load_user, Flask-Login's user_loader: User.get(user_id)
load_user(st, user_id, t, fail) ==
  WithCalls(
    Out(st,
        IF User_get(st, user_id, t, fail)
        THEN RetUser(IdentOf(st[FirstActive(st, user_id, t)]))
        ELSE RetNone,
        <<>>),
    <<"query">>)

\* ------------------------------------------ functions/*_session/main.py
\* Every Cloud Function turns an exception into a 500 response.
cf_create_session(st, sid, prof, req, t, fail) ==
  LET ip_hash == IF Truthy(req.ip) THEN sha256_16(req.ip) ELSE None
      ua_hash == IF Truthy(req.ua) THEN sha256_16(req.ua) ELSE None
      session_data ==
        [user_id |-> prof.user_id, email |-> prof.email, name |-> prof.name,
         picture |-> prof.picture, created_at |-> t, last_active |-> t,
         expires_at |-> t + SESSION_TTL_DAYS, ip_hash |-> ip_hash,
         ua_hash |-> ua_hash]
  IN IF ~(Truthy(prof.user_id) /\ Truthy(prof.email) /\ Truthy(prof.name))
     THEN Out(st, RetHttp(400, "missing_fields", NoIdent, 0, FALSE), <<>>)
     ELSE IF fail
       THEN WithCalls(Out(st, RetHttp(500, "error", NoIdent, 0, FALSE), <<>>), <<"put">>)
     ELSE WithCalls(Out(db_put(st, sid, session_data),
                        RetHttp(201, None, NoIdent, sid, TRUE),
                        <<Stdout("session_created", prof.user_id, None, sid)>>),
                    <<"put", "emit">>)

cf_path(session, req, t) ==
  LET rec == session.rec
  IN IF ~session.found THEN "not_found"
     ELSE IF IsExpired(rec.expires_at, t) THEN "expired"
     ELSE IF Truthy(req.ip) /\ Truthy(rec.ip_hash) /\ rec.ip_hash # sha256_16(req.ip)
       THEN "ip_mismatch"
     ELSE IF Truthy(req.ua) /\ Truthy(rec.ua_hash) /\ rec.ua_hash # sha256_16(req.ua)
       THEN "user_agent_mismatch"
     ELSE "touch"

cf_result(path, rec) ==
  CASE path = "not_found" ->
         [ret |-> RetHttp(404, "not_found", NoIdent, 0, FALSE), events |-> <<>>]
    [] path = "touch" ->
         [ret |-> RetHttp(200, None, IdentOf(rec), 0, TRUE), events |-> <<>>]
    [] OTHER -> [ret |-> RetHttp(401, path, NoIdent, 0, FALSE),
                 events |-> <<Event(IF path = "expired" THEN "session_expired"
                                    ELSE "session_hijack_attempt", None, path)>>]

\* The lines validate_session writes to its output
cf_events(r, sid) ==
  IF r.events = <<>> THEN <<>>
  ELSE <<Stdout(r.events[1].type, None, r.events[1].reason, sid)>>

cf_validate_session(st, sid, req, t, fail) ==
  LET session == db_get(st, sid)
      path == cf_path(session, req, t)
      r == cf_result(path, session.rec)
      st2 == CASE path = "not_found" -> st
               [] path = "touch" -> db_put(st, sid, [session.rec EXCEPT !.last_active = t])
               [] OTHER -> db_delete(st, sid)
      events == cf_events(r, sid)
      calls == <<"get">> \o (CASE path = "not_found" -> <<>>
                               [] path = "touch" -> <<"put">>
                               [] OTHER -> <<"delete", "emit">>)
  IN IF fail
     THEN WithCalls(Out(st, RetHttp(500, "error", NoIdent, 0, FALSE), <<>>), <<"get">>)
     ELSE WithCalls(Out(st2, r.ret, events), calls)

cf_delete_session(st, sid, reason, fail) ==
  IF fail
  THEN WithCalls(Out(st, RetHttp(500, "error", NoIdent, 0, FALSE), <<>>), <<"get">>)
  ELSE IF sid \notin DOMAIN st
    THEN WithCalls(Out(st, RetHttp(404, "not_found", NoIdent, 0, FALSE), <<>>), <<"get">>)
  ELSE WithCalls(Out(db_delete(st, sid), RetHttp(200, reason, NoIdent, 0, TRUE),
                     <<Stdout("session_deleted", st[sid].user_id, reason, sid)>>),
                 <<"get", "delete", "emit">>)

cf_get_user_session(st, user_id, t, fail) ==
  IF ~Truthy(user_id)
  THEN Out(st, RetHttp(400, "missing_fields", NoIdent, 0, FALSE), <<>>)
  ELSE IF fail
    THEN WithCalls(Out(st, RetHttp(500, "error", NoIdent, 0, FALSE), <<>>), <<"query">>)
  ELSE IF ActiveSessions(st, user_id, t) = {}
    THEN WithCalls(Out(st, RetHttp(404, "not_found", NoIdent, 0, FALSE), <<>>), <<"query">>)
  ELSE WithCalls(Out(st, RetHttp(200, None, IdentOf(st[FirstActive(st, user_id, t)]), 0, TRUE),
                     <<>>),
                 <<"query">>)

\* functions/cleanup_old_sessions/main.py
\* A staleness test that takes the cutoff itself as old: C15 tells it from IsStale
IsStale_inclusive(last_active, t) == last_active <= t - RETENTION_DAYS

\* The filter of the query: last_active < cutoff_date
IsStale(last_active, t) == last_active < t - RETENTION_DAYS

\* A query that leaves expired sessions alone: C24 tells it from old_sessions
old_sessions_unexpired(st, t) ==
  {s \in DOMAIN st : IsStale(st[s].last_active, t) /\ st[s].expires_at >= t}

old_sessions(st, t) == {s \in DOMAIN st : IsStale(st[s].last_active, t)}

\* A delete_multi that deletes one key of the batch only: C25 tells it from
\* delete_multi
delete_multi_one(st, keys) ==
  [k \in DOMAIN st \ (IF keys = {} THEN {} ELSE {CHOOSE c \in keys : TRUE}) |-> st[k]]

delete_multi(st, keys) == [k \in DOMAIN st \ keys |-> st[k]]

\* The keys are deleted in batches of BATCH_SIZE, the rest in a last batch
RECURSIVE delete_in_batches(_, _)
delete_in_batches(st, keys) ==
  IF keys = {} THEN st
  ELSE LET n == IF Cardinality(keys) >= BATCH_SIZE THEN BATCH_SIZE ELSE Cardinality(keys)
           batch == CHOOSE b \in SUBSET keys : Cardinality(b) = n
       IN delete_in_batches(delete_multi(st, batch), keys \ batch)

\* The dict cleanup_old_sessions returns: status and deleted_count
RetSweep(deleted_count, ok) ==
  Ret("dict", deleted_count, IF ok THEN "success" ELSE "error", NoIdent, 0, ok)

cleanup_old_sessions(st, t, fail) ==
  IF fail THEN Out(st, RetSweep(0, FALSE), <<>>)
  ELSE Out(delete_in_batches(st, old_sessions(st, t)),
           RetSweep(Cardinality(old_sessions(st, t)), TRUE), <<>>)

\* app/utils/session_client.py: what the caller of a Cloud Function gets
create_session_remote(resp) ==
  IF resp.status = 201 THEN RetSid(resp.sid) ELSE RetNone

validate_session_remote(resp) ==
  IF resp.status = 200 /\ resp.flag THEN RetUser(resp.ident) ELSE RetNone

delete_session_remote(resp) == RetBool(resp.status = 200)

get_user_session_remote(resp) ==
  IF resp.status = 200 /\ resp.flag THEN RetUser(resp.ident) ELSE RetNone

\* ------------------------------------------------------------------- state
VARIABLES
  store,          \* the Session kind: session id -> entity
  now,            \* the clock, in days
  ticks,          \* how often the clock has advanced
  nextSid,        \* the next fresh session id
  cookie,         \* the browser's session_id cookie (0: none)
  flask_session,  \* the browser's Flask session: Flask-Login's user and session["user"]
  last,           \* the call that has just completed and whose result the caller
                  \* has not taken yet: its inputs, the entity it found, its result
  fresh,          \* the Create that completed with no other call or tick since
  removed,        \* the session ids that were deleted from the store, each with
                  \* what deleted it first
  procs,          \* the validations in flight (interleaved runs only)
  sweep,          \* the cleanup run in flight (runs taken batch by batch only)
  rate            \* the rate limiter: the application context a caller holds, its
                  \* g.rate_limit_store, and the times of the requests let through

vars ==
  <<store, now, ticks, nextSid, cookie, flask_session, last, fresh, removed, procs,
    sweep, rate>>

Procs == {1, 2}

NoFlaskSession == [logged_in |-> FALSE, user |-> NoIdent]
NoFresh == [sid |-> 0, impl |-> None, prof |-> NoIdent, req |-> NoRequest]
IdleProc ==
  [pc |-> "idle", impl |-> None, sid |-> 0, req |-> NoRequest, rec |-> NullRec,
   entity |-> NullRec, path |-> None, gone |-> None]

\* No cleanup run in flight.  keys: the keys of old_sessions not yet handed to
\* delete_multi, in the order of the query; deleted: the keys of the batches
\* this run has deleted; early, left: the keys the last failed run had deleted
\* in its earlier batches, and the keys it did not get to
IdleSweep ==
  [pc |-> "idle", keys |-> <<>>, cutoff |-> 0, batch_size |-> 0, deleted_count |-> 0,
   deleted |-> {}, early |-> {}, left |-> {}]

\* The keys of the rate limiter: f"{request.remote_addr}:{request.path}"
Paths == {"/login"}
RateKeys == IPs \X Paths

\* No application context is held, nothing was let through.  g: key -> the
\* attempts list of g.rate_limit_store (no entry: the empty list)
NoRate ==
  [held |-> FALSE, g |-> [k \in RateKeys |-> <<>>], accepted |-> [k \in RateKeys |-> <<>>]]

NoCall ==
  [op |-> "none", impl |-> None, sid |-> 0, req |-> NoRequest, prof |-> NoIdent,
   reason |-> None, fail |-> FALSE, before |-> NoEntity, gone |-> None,
   fresh |-> NoFresh, authed |-> FALSE, ret |-> RetNone, events |-> <<>>,
   logs |-> <<>>, calls |-> <<>>]

\* What deleted session id sid (None: it was never deleted)
GoneBy(sid) == IF sid \in DOMAIN removed THEN removed[sid] ELSE None

\* The record of a completed call; before: the entity the call read, gone: what
\* had deleted the session id when the call began, authed: did the request pass
\* @login_required
CallOf(op, impl, sid, req, prof, reason, fail, before, gone, out) ==
  [op |-> op, impl |-> impl, sid |-> sid, req |-> req, prof |-> prof,
   reason |-> reason, fail |-> fail, before |-> before, gone |-> gone,
   fresh |-> fresh, authed |-> FALSE, ret |-> out.ret, events |-> out.events,
   logs |-> out.logs, calls |-> out.calls]

Call(op, impl, sid, req, prof, reason, fail, out) ==
  CallOf(op, impl, sid, req, prof, reason, fail, db_get(store, sid), GoneBy(sid), out)

\* removed, after a step that leaves the store as st and deletes by cause
Removed(st, cause) ==
  [s \in DOMAIN removed \cup (DOMAIN store \ DOMAIN st) |->
     IF s \in DOMAIN removed THEN removed[s] ELSE cause]

Idle == last.op = "none"

Init ==
  /\ store = <<>>
  /\ now = 0
  /\ ticks = 0
  /\ nextSid = 1
  /\ cookie = 0
  /\ flask_session = NoFlaskSession
  /\ last = NoCall
  /\ fresh = NoFresh
  /\ removed = <<>>
  /\ procs = [p \in Procs |-> IdleProc]
  /\ sweep = IdleSweep
  /\ rate = NoRate

\* --------------------------------------------------------------- the calls
create_session(impl, st, sid, prof, req, t, fail) ==
  IF impl = "app" THEN User_create_session(st, sid, prof, req, t, fail)
  ELSE cf_create_session(st, sid, prof, req, t, fail)

validate_session(impl, st, sid, req, t, fail) ==
  IF impl = "app" THEN User_validate_session(st, sid, req, t, fail)
  ELSE cf_validate_session(st, sid, req, t, fail)

validate_path(impl, session, req, t) ==
  IF impl = "app" THEN app_path(session, req, t) ELSE cf_path(session, req, t)

validate_result(impl, path, rec) ==
  IF impl = "app" THEN app_result(path, rec) ELSE cf_result(path, rec)

validate_events(impl, r, sid, req) ==
  IF impl = "app" THEN app_events(r, sid, req) ELSE cf_events(r, sid)

delete_session(impl, st, sid, reason, fail) ==
  IF impl = "app" THEN User_delete_session(st, sid, reason, fail)
  ELSE cf_delete_session(st, sid, reason, fail)

get_user(impl, st, user_id, t, fail) ==
  IF impl = "app" THEN load_user(st, user_id, t, fail)
  ELSE cf_get_user_session(st, user_id, t, fail)

\* The user ids asked for: the users of Profiles, and none
UserIds == {prof.user_id : prof \in Profiles} \cup {None}

Tick(d) ==
  /\ Idle
  /\ ticks < MaxTicks
  /\ now' = now + d
  /\ ticks' = ticks + 1
  /\ fresh' = NoFresh
  /\ UNCHANGED <<rate, sweep, store, nextSid, cookie, flask_session, last, removed, procs>>

\* The clock advances by d, up to the day the run ends
Advance(d, horizon) ==
  /\ Idle
  /\ now + d <= horizon
  /\ now' = now + d
  /\ fresh' = NoFresh
  /\ UNCHANGED <<rate, sweep, store, ticks, nextSid, cookie, flask_session, last, removed, procs>>

\* A Create while fewer than n sessions have been created
CreateN(n, impl, prof, req, fail) ==
  /\ Idle
  /\ nextSid <= n
  /\ LET out == create_session(impl, store, nextSid, prof, req, now, fail)
     IN /\ store' = out.store
        /\ last' = Call("create", impl, nextSid, req, prof, None, fail, out)
  /\ nextSid' = nextSid + 1
  /\ fresh' = IF create_session(impl, store, nextSid, prof, req, now, fail).ret.sid # 0
              THEN [sid |-> nextSid, impl |-> impl, prof |-> prof, req |-> req]
              ELSE NoFresh
  /\ UNCHANGED <<rate, sweep, now, ticks, cookie, flask_session, removed, procs>>

Create(impl, prof, req, fail) == CreateN(MaxSessions, impl, prof, req, fail)

\* A Create during which the clock moves: by d1 after the first reading of the
\* clock and by d2 after the second.  The function reads the clock once.
CreateDuring(impl, prof, req, d1, d2) ==
  /\ Idle
  /\ nextSid <= MaxSessions
  /\ ticks + d1 + d2 <= MaxTicks
  /\ LET out == IF impl = "app"
                THEN User_create_session_at(store, nextSid, prof, req,
                                            now, now + d1, now + d1 + d2, FALSE)
                ELSE cf_create_session(store, nextSid, prof, req, now, FALSE)
     IN /\ store' = out.store
        /\ last' = Call("create", impl, nextSid, req, prof, None, FALSE, out)
  /\ now' = now + d1 + d2
  /\ ticks' = ticks + d1 + d2
  /\ nextSid' = nextSid + 1
  /\ fresh' = NoFresh
  /\ UNCHANGED <<rate, sweep, cookie, flask_session, removed, procs>>

Validate(impl, sid, req, fail) ==
  /\ Idle
  /\ LET out == validate_session(impl, store, sid, req, now, fail)
     IN /\ store' = out.store
        /\ removed' = Removed(out.store, validate_path(impl, db_get(store, sid), req, now))
        /\ last' = Call("validate", impl, sid, req, NoIdent, None, fail, out)
  /\ fresh' = NoFresh
  /\ UNCHANGED <<rate, sweep, now, ticks, nextSid, cookie, flask_session, procs>>

Delete(impl, sid, reason, fail) ==
  /\ Idle
  /\ LET out == delete_session(impl, store, sid, reason, fail)
     IN /\ store' = out.store
        /\ removed' = Removed(out.store, "delete")
        /\ last' = Call("delete", impl, sid, NoRequest, NoIdent, reason, fail, out)
  /\ fresh' = NoFresh
  /\ UNCHANGED <<rate, sweep, now, ticks, nextSid, cookie, flask_session, procs>>

GetUser(impl, user_id, fail) ==
  /\ Idle
  /\ last' = Call("get", impl, 0, NoRequest, [NoIdent EXCEPT !.user_id = user_id],
                  None, fail, get_user(impl, store, user_id, now, fail))
  /\ fresh' = NoFresh
  /\ UNCHANGED <<rate, sweep, store, now, ticks, nextSid, cookie, flask_session, removed, procs>>

Sweep(fail) ==
  /\ Idle
  /\ LET out == cleanup_old_sessions(store, now, fail)
     IN /\ store' = out.store
        /\ removed' = Removed(out.store, "sweep")
        /\ last' = Call("sweep", "cf", 0, NoRequest, NoIdent, None, fail, out)
  /\ fresh' = NoFresh
  /\ UNCHANGED <<rate, sweep, now, ticks, nextSid, cookie, flask_session, procs>>

\* The entities of a query with an inequality filter on last_active come in
\* the order of last_active, then of the key
RECURSIVE QueryOrder(_, _)
QueryOrder(st, keys) ==
  IF keys = {} THEN <<>>
  ELSE LET k == CHOOSE c \in keys :
                  \A o \in keys : \/ st[c].last_active < st[o].last_active
                                   \/ (st[c].last_active = st[o].last_active /\ c <= o)
       IN <<k>> \o QueryOrder(st, keys \ {k})

SweepResult(st, deleted_count, fail) ==
  Call("sweep", "cf", 0, NoRequest, NoIdent, None, fail,
       Out(st, RetSweep(deleted_count, ~fail), <<>>))

\* cleanup_old_sessions taken step by step.  The cutoff and the query; with
\* nothing to delete the function returns at once.  batch_size is 500 in the
\* code; the runs also take smaller batches.
SweepStart(batch_size) ==
  /\ Idle
  /\ sweep.pc = "idle"
  /\ LET keys == QueryOrder(store, old_sessions(store, now))
     IN IF keys = <<>>
        THEN /\ last' = SweepResult(store, 0, FALSE)
             /\ sweep' = sweep
        ELSE /\ last' = last
             /\ sweep' = [pc |-> "batch", keys |-> keys, cutoff |-> now - RETENTION_DAYS,
                          batch_size |-> batch_size, deleted_count |-> 0,
                          deleted |-> {}, early |-> sweep.early, left |-> sweep.left]
  /\ fresh' = NoFresh
  /\ UNCHANGED <<rate, store, now, ticks, nextSid, cookie, flask_session, removed, procs>>

\* The next db.delete_multi(batch).  When it raises, done is what the store had
\* deleted of the batch by then (the call is not a transaction) and the
\* function returns its error; after the last batch the function returns.
SweepBatch(fail, done) ==
  /\ Idle
  /\ sweep.pc = "batch"
  /\ LET n == IF Len(sweep.keys) >= sweep.batch_size
              THEN sweep.batch_size ELSE Len(sweep.keys)
         batch == {sweep.keys[i] : i \in 1..n}
         rest == SubSeq(sweep.keys, n + 1, Len(sweep.keys))
         st == delete_multi(store, done)
     IN /\ done \subseteq batch
        /\ ~fail => done = batch
        /\ store' = st
        /\ removed' = Removed(st, "sweep")
        /\ IF fail
           THEN /\ last' = SweepResult(st, sweep.deleted_count, TRUE)
                /\ sweep' = [IdleSweep EXCEPT !.early = sweep.deleted,
                                              !.left = {rest[i] : i \in DOMAIN rest}]
           ELSE IF rest = <<>>
             THEN /\ last' = SweepResult(st, sweep.deleted_count + n, FALSE)
                  /\ sweep' = [IdleSweep EXCEPT !.early = sweep.early,
                                                !.left = sweep.left]
           ELSE /\ last' = last
                /\ sweep' = [sweep EXCEPT !.keys = rest,
                                          !.deleted_count = sweep.deleted_count + n,
                                          !.deleted = sweep.deleted \cup batch]
  /\ fresh' = NoFresh
  /\ UNCHANGED <<rate, now, ticks, nextSid, cookie, flask_session, procs>>

\* ------------------------------ app/utils/logging/security_decorators.py
\* attempts = [t for t in attempts if t > cutoff]
RECURSIVE Recent(_, _)
Recent(attempts, cutoff) ==
  IF attempts = <<>> THEN <<>>
  ELSE (IF attempts[1] > cutoff THEN <<attempts[1]>> ELSE <<>>)
       \o Recent(Tail(attempts), cutoff)

\* rate_limit_with_logging(max_attempts, window_seconds) around a handler f,
\* for a request of key at second t: g0 is g.rate_limit_store as the request
\* finds it.  The result: the store as the request leaves it, the response
\* and the violation logged
decorated_function(g0, key, t, max_attempts, window_seconds) ==
  LET cutoff == t - window_seconds
      attempts == Recent(g0[key], cutoff)
  IN IF Len(attempts) >= max_attempts
     THEN [g |-> g0, status |-> 429,
           events |-> <<get_request_context(
                          Event("suspicious_activity", None, "rate_limit_exceeded"),
                          Req(key[1], None))>>]
     ELSE [g |-> [g0 EXCEPT ![key] = Append(attempts, t)], status |-> 200,
           events |-> <<>>]

\* The caller enters or leaves "with app.app_context()": g belongs to the
\* application context and goes with it
AppContextPush ==
  /\ Idle
  /\ ~rate.held
  /\ rate' = [rate EXCEPT !.held = TRUE, !.g = NoRate.g]
  /\ UNCHANGED <<sweep, store, now, ticks, nextSid, cookie, flask_session, last, fresh,
                 removed, procs>>

AppContextPop ==
  /\ Idle
  /\ rate.held
  /\ rate' = [rate EXCEPT !.held = FALSE, !.g = NoRate.g]
  /\ UNCHANGED <<sweep, store, now, ticks, nextSid, cookie, flask_session, last, fresh,
                 removed, procs>>

\* A request to a rate-limited endpoint.  Flask runs it in the application
\* context the caller holds; when none is held, as under a WSGI server, it
\* pushes a new one for the request and pops it afterwards.  most: how many
\* requests let through the run records per key
RateRequest(ip, path, max_attempts, window_seconds, most) ==
  /\ Idle
  /\ Len(rate.accepted[<<ip, path>>]) < most
  /\ LET key == <<ip, path>>
         g0 == IF rate.held THEN rate.g ELSE NoRate.g
         r == decorated_function(g0, key, now, max_attempts, window_seconds)
     IN /\ rate' = [rate EXCEPT
                      !.g = IF rate.held THEN r.g ELSE NoRate.g,
                      !.accepted[key] = IF r.status = 200 THEN Append(@, now) ELSE @]
        /\ last' = Call("request", "app", 0, Req(ip, None), NoIdent, path, FALSE,
                        Out(store, RetHttp(r.status, None, NoIdent, 0, r.status = 200),
                            r.events))
  /\ fresh' = NoFresh
  /\ UNCHANGED <<sweep, store, now, ticks, nextSid, cookie, flask_session, removed, procs>>

\* The caller takes the result
Return ==
  /\ ~Idle
  /\ last' = NoCall
  /\ UNCHANGED <<rate, sweep, store, now, ticks, nextSid, cookie, flask_session, fresh, removed, procs>>

\* ------------------------------------------------- app/auth/routes.py
\* callback: the OAuth provider answers with the user's claims, with no user
\* info, or the token exchange raises
OAuthAnswers == {"ok", "no_userinfo", "error"}

callback(oauth, prof, req, fail) ==
  LET known == User_get(store, prof.user_id, now, fail)
      c == User_create_session(store, nextSid, prof, req, now, fail)
      events ==
        <<Event("oauth_token_exchange", None, None),
          Event("oauth_callback", prof.user_id, None)>>
        \o (IF known THEN <<>> ELSE <<Event("account_created", prof.user_id, None)>>)
        \o c.events
        \o <<Event("login_success", prof.user_id, None)>>
  IN CASE oauth = "error" ->
            [out |-> Out(store, RetHttp(500, "oauth_failure", NoIdent, 0, FALSE),
                         <<Event("oauth_failure", None, "error")>>),
             flask_session |-> flask_session, cookie |-> cookie]
       [] oauth = "no_userinfo" ->
            [out |-> Out(store, RetHttp(400, "no_userinfo", NoIdent, 0, FALSE),
                         <<Event("oauth_token_exchange", None, None),
                           Event("oauth_failure", None, "no_userinfo")>>),
             flask_session |-> flask_session, cookie |-> cookie]
       [] oauth = "ok" ->
            [out |-> OutL(c.store, RetHttp(302, "index", NoIdent, c.ret.sid, TRUE), events,
                          c.logs),
             flask_session |-> [logged_in |-> TRUE, user |-> prof],
             cookie |-> c.ret.sid]

\* logout, behind @login_required: Flask-Login loads the user with User.get
login_required(fail) ==
  /\ flask_session.logged_in
  /\ User_get(store, flask_session.user.user_id, now, fail)

logout(fail) ==
  LET authed == login_required(fail)
      d == User_delete_session(store, cookie, "logout", fail)
      st == IF cookie # 0 THEN d.store ELSE store
  IN IF ~authed
     THEN [out |-> Out(store, RetHttp(302, "login", NoIdent, cookie, FALSE), <<>>),
           flask_session |-> flask_session, cookie |-> cookie]
     ELSE IF cookie # 0 /\ d.ret.kind = "raise"
     THEN [out |-> OutL(d.store, RetHttp(500, d.ret.reason, NoIdent, cookie, FALSE), <<>>,
                        d.logs),
           flask_session |-> flask_session, cookie |-> cookie]
     ELSE [out |-> OutL(st, RetHttp(302, "index", NoIdent, 0, TRUE),
                        (IF cookie # 0 THEN d.events ELSE <<>>)
                        \o <<Event("logout", flask_session.user.user_id, None)>>,
                        IF cookie # 0 THEN d.logs ELSE <<>>),
           flask_session |-> NoFlaskSession, cookie |-> 0]

Callback(oauth, prof, req, fail) ==
  /\ Idle
  /\ nextSid <= MaxSessions
  /\ LET r == callback(oauth, prof, req, fail)
     IN /\ store' = r.out.store
        /\ flask_session' = r.flask_session
        /\ cookie' = r.cookie
        /\ last' = Call("callback", "app", IF oauth = "ok" THEN nextSid ELSE 0, req,
                        prof, oauth, fail, r.out)
  /\ nextSid' = IF oauth = "ok" THEN nextSid + 1 ELSE nextSid
  /\ fresh' = NoFresh
  /\ UNCHANGED <<rate, sweep, now, ticks, removed, procs>>

Logout(fail) ==
  /\ Idle
  /\ LET r == logout(fail)
     IN /\ store' = r.out.store
        /\ removed' = Removed(r.out.store, "logout")
        /\ flask_session' = r.flask_session
        /\ cookie' = r.cookie
        /\ last' = [Call("logout", "app", cookie, NoRequest, flask_session.user,
                         "logout", fail, r.out)
                      EXCEPT !.authed = login_required(fail)]
  /\ fresh' = NoFresh
  /\ UNCHANGED <<rate, sweep, now, ticks, nextSid, procs>>

\* ------------------------------------------- validations that interleave
\* A validation is a sequence of store calls; the calls of two validations, and
\* the other calls, interleave.  User.validate_session: db.get, then db.delete,
\* or update_entity's db.get and db.put.  The validate_session function: db.get,
\* then db.delete or db.put of the entity it read.
Finish(p, out) ==
  LET q == procs[p]
  IN /\ last' = CallOf("validate", q.impl, q.sid, q.req, NoIdent, None, FALSE,
                       [found |-> TRUE, rec |-> q.rec], q.gone, out)
     /\ procs' = [procs EXCEPT ![p] = IdleProc]

VStart(p, impl, sid, req) ==
  /\ Idle
  /\ procs[p].pc = "idle"
  /\ LET session == db_get(store, sid)
         path == validate_path(impl, session, req, now)
         r == validate_result(impl, path, session.rec)
     IN IF path = "not_found"
        THEN /\ last' = Call("validate", impl, sid, req, NoIdent, None, FALSE,
                             Out(store, r.ret, validate_events(impl, r, sid, req)))
             /\ procs' = procs
        ELSE /\ procs' = [procs EXCEPT ![p] =
                  [pc |-> IF path # "touch" THEN "delete"
                          ELSE IF impl = "app" THEN "update_get" ELSE "put",
                   impl |-> impl, sid |-> sid, req |-> req, rec |-> session.rec,
                   entity |-> session.rec, path |-> path, gone |-> GoneBy(sid)]]
             /\ last' = last
  /\ fresh' = NoFresh
  /\ UNCHANGED <<rate, sweep, store, now, ticks, nextSid, cookie, flask_session, removed>>

VDelete(p) ==
  /\ Idle
  /\ procs[p].pc = "delete"
  /\ LET q == procs[p]
         r == validate_result(q.impl, q.path, q.rec)
         st == db_delete(store, q.sid)
     IN /\ store' = st
        /\ removed' = Removed(st, q.path)
        /\ Finish(p, Out(st, r.ret, validate_events(q.impl, r, q.sid, q.req)))
  /\ UNCHANGED <<rate, sweep, now, ticks, nextSid, cookie, flask_session, fresh>>

\* update_entity reads the entity again; a session that is gone is not written
\* and User.validate_session returns the User all the same
VUpdateGet(p) ==
  /\ Idle
  /\ procs[p].pc = "update_get"
  /\ LET q == procs[p]
         entity == db_get(store, q.sid)
         r == validate_result(q.impl, q.path, q.rec)
     IN IF entity.found
        THEN /\ procs' = [procs EXCEPT ![p].pc = "put",
                                       ![p].entity = [entity.rec EXCEPT !.last_active = now]]
             /\ last' = last
        ELSE Finish(p, Out(store, r.ret, validate_events(q.impl, r, q.sid, q.req)))
  /\ UNCHANGED <<rate, sweep, store, now, ticks, nextSid, cookie, flask_session, fresh, removed>>

VPut(p) ==
  /\ Idle
  /\ procs[p].pc = "put"
  /\ LET q == procs[p]
         r == validate_result(q.impl, q.path, q.rec)
         entity == IF q.impl = "app" THEN q.entity
                   ELSE [q.rec EXCEPT !.last_active = now]
         st == db_put(store, q.sid, entity)
     IN /\ store' = st
        /\ Finish(p, Out(st, r.ret, validate_events(q.impl, r, q.sid, q.req)))
  /\ UNCHANGED <<rate, sweep, now, ticks, nextSid, cookie, flask_session, fresh, removed>>

\* ------------------------------------------------------- specifications
\* The session calls, one after the other.  Faults: is the store unavailable
\* during a call
Api(Faults) ==
  \/ \E d \in TickSteps : Tick(d)
  \/ \E impl \in Impls, prof \in Profiles, fail \in Faults :
       \E req \in CreateRequestsOf(impl) : Create(impl, prof, req, fail)
  \/ \E impl \in Impls, sid \in SIDs, fail \in Faults :
       \E req \in RequestsOf(impl) : Validate(impl, sid, req, fail)
  \/ \E impl \in Impls, sid \in SIDs, reason \in Reasons, fail \in Faults :
       Delete(impl, sid, reason, fail)
  \/ \E impl \in Impls, user_id \in UserIds, fail \in Faults : GetUser(impl, user_id, fail)
  \/ Return

\* The login and logout routes of one browser
Routes(Faults) ==
  \/ \E oauth \in OAuthAnswers, prof \in Profiles, fail \in Faults :
       \E req \in CreateRequestsOf("app") \ {NoRequest} : Callback(oauth, prof, req, fail)
  \/ \E fail \in Faults : Logout(fail)

\* The store is available
Next == Api({FALSE})
Spec == Init /\ [][Next]_vars

\* The store may be unavailable during any call
FaultNext == Api(BOOLEAN)
FaultSpec == Init /\ [][FaultNext]_vars

\* A browser logging in and out while sessions are deleted behind its back
RouteNext ==
  \/ \E d \in TickSteps : Tick(d)
  \/ Routes(BOOLEAN)
  \/ \E impl \in Impls, prof \in Profiles, fail \in BOOLEAN :
       \E req \in CreateRequestsOf(impl) : Create(impl, prof, req, fail)
  \/ \E impl \in Impls, sid \in SIDs : Delete(impl, sid, "security_violation", FALSE)
  \/ Return
RouteSpec == Init /\ [][RouteNext]_vars

\* Validations whose store calls interleave with each other, with Create and
\* with Delete; the store is available.  One user logs in from one client and
\* the session is validated from that client and from another address.
ConcProfile == CHOOSE prof \in Profiles : prof.user_id = "u1"
ConcRequests == {Req("1.2.3.4", "TestAgent"), Req("9.9.9.9", "TestAgent")}

ConcNext ==
  \/ \E d \in TickSteps : Tick(d)
  \/ \E impl \in Impls :
       /\ nextSid <= ConcSessions
       /\ Create(impl, ConcProfile, Req("1.2.3.4", "TestAgent"), FALSE)
  \/ \E impl \in Impls, sid \in 1..ConcSessions : Delete(impl, sid, "logout", FALSE)
  \/ \E p \in Procs, impl \in Impls, sid \in 1..ConcSessions, req \in ConcRequests :
       VStart(p, impl, sid, req)
  \/ \E p \in Procs : VDelete(p)
  \/ \E p \in Procs : VUpdateGet(p)
  \/ \E p \in Procs : VPut(p)
  \/ Return
ConcSpec == Init /\ [][ConcNext]_vars

\* The periodic cleanup among sessions that are created and validated with no
\* binding data; the clock moves by a day or by the retention
SweepTickSteps == {1, RETENTION_DAYS}
NoBindingRequest(impl) == IF impl = "app" THEN NoRequest ELSE Req(None, None)

SweepNext ==
  \/ \E d \in SweepTickSteps : Tick(d)
  \/ \E impl \in Impls, prof \in Profiles :
       Create(impl, prof, NoBindingRequest(impl), FALSE)
  \/ \E impl \in Impls, sid \in SIDs : Validate(impl, sid, NoBindingRequest(impl), FALSE)
  \/ \E fail \in BOOLEAN : Sweep(fail)
  \/ Return
SweepSpec == Init /\ [][SweepNext]_vars

\* Create is handed what the identity provider sent, complete or not
IncompleteProfiles ==
  LET full == CHOOSE prof \in Profiles : prof.user_id = "u1"
  IN { [full EXCEPT !.user_id = None], [full EXCEPT !.user_id = ""],
       [full EXCEPT !.email = None], [full EXCEPT !.email = ""],
       [full EXCEPT !.name = None], [full EXCEPT !.name = ""] }

InputNext ==
  \/ \E d \in TickSteps : Tick(d)
  \/ \E impl \in Impls, prof \in Profiles \cup IncompleteProfiles :
       Create(impl, prof, NoBindingRequest(impl), FALSE)
  \/ \E impl \in Impls, sid \in SIDs : Validate(impl, sid, NoBindingRequest(impl), FALSE)
  \/ Return
InputSpec == Init /\ [][InputNext]_vars

\* The cleanup taken batch by batch, its delete_multi failing or not, among
\* sessions that are created and validated with no binding data
SmallBatch == 1
BatchSessions == 3
BatchSizes == {SmallBatch, BATCH_SIZE}

BatchNext ==
  \/ \E d \in SweepTickSteps : Tick(d)
  \/ \E impl \in Impls :
       CreateN(BatchSessions, impl, ConcProfile, NoBindingRequest(impl), FALSE)
  \/ \E impl \in Impls, sid \in 1..BatchSessions :
       Validate(impl, sid, NoBindingRequest(impl), FALSE)
  \/ \E batch_size \in BatchSizes : SweepStart(batch_size)
  \/ \E fail \in BOOLEAN, done \in SUBSET (1..BatchSessions) : SweepBatch(fail, done)
  \/ Return
BatchSpec == Init /\ [][BatchNext]_vars

\* The cleanup as the scheduler keeps triggering it, among sessions that are
\* created in the first days and validated or not: the clock keeps advancing
\* until LiveHorizon, every call returns, and the cleanup keeps being run with
\* the store available.  Sessions are created early enough for the run to see
\* them expire and grow stale.
LiveSlack == 1
LiveHorizon == SESSION_TTL_DAYS + RETENTION_DAYS + 1 + LiveSlack
LiveSteps == {1, RETENTION_DAYS, SESSION_TTL_DAYS}

LiveNext ==
  \/ \E d \in LiveSteps : Advance(d, LiveHorizon)
  \/ \E impl \in Impls :
       /\ now <= LiveSlack
       /\ Create(impl, ConcProfile, NoBindingRequest(impl), FALSE)
  \/ \E impl \in Impls, sid \in SIDs : Validate(impl, sid, NoBindingRequest(impl), FALSE)
  \/ \E fail \in BOOLEAN : Sweep(fail)
  \/ Return
LiveSpec ==
  /\ Init /\ [][LiveNext]_vars
  /\ WF_vars(Return)
  /\ SF_vars(\E d \in LiveSteps : Advance(d, LiveHorizon))
  /\ SF_vars(Sweep(FALSE))

\* Requests to an endpoint under rate_limit_with_logging(RateAttempts,
\* RateWindow); the clock counts seconds
RateAttempts == 2
RateWindow == 2
RateSteps == {1, RateWindow}
RateHorizon == 2 * RateWindow
RateNext ==
  \/ \E d \in RateSteps : Advance(d, RateHorizon)
  \/ AppContextPush
  \/ AppContextPop
  \/ \E ip \in IPs, path \in Paths :
       RateRequest(ip, path, RateAttempts, RateWindow, RateAttempts + 1)
  \/ Return
RateSpec == Init /\ [][RateNext]_vars

\* Sessions created while the clock moves
ClockNext ==
  \/ \E d \in TickSteps : Tick(d)
  \/ \E impl \in Impls, prof \in Profiles, d1 \in {0, 1}, d2 \in {0, 1} :
       CreateDuring(impl, prof, NoBindingRequest(impl), d1, d2)
  \/ \E impl \in Impls, sid \in SIDs : Validate(impl, sid, NoBindingRequest(impl), FALSE)
  \/ Return
ClockSpec == Init /\ [][ClockNext]_vars

\* ------------------------------------------------------------- the claims
\* The outcome of a validation as its caller can tell it.  User.validate_session
\* returns a User, returns None or raises; which of the invalid outcomes a None
\* stands for shows only in the audit event of the call.
ValidateOutcome(c) ==
  IF c.impl = "app"
  THEN CASE c.ret.kind = "User" -> "identity"
         [] c.ret.kind = "raise" -> "error"
         [] OTHER -> IF c.events = <<>> THEN "not_found"
                     ELSE IF c.events[1].type = "session_expired" THEN "expired"
                     ELSE c.events[1].reason
  ELSE CASE c.ret.status = 200 -> "identity"
         [] c.ret.status = 404 -> "not_found"
         [] c.ret.status = 401 -> c.ret.reason
         [] OTHER -> "error"

DeleteOutcome(c) ==
  IF c.impl = "app"
  THEN IF c.ret.kind = "raise" THEN "error" ELSE IF c.ret.flag THEN "true" ELSE "false"
  ELSE CASE c.ret.status = 200 -> "true"
         [] c.ret.status = 404 -> "false"
         [] OTHER -> "error"

\* The validation found a session that has not reached its expires_at
Unexpired(c) == c.before.found /\ c.before.rec.expires_at > now

\* The caller supplied an IP (a User-Agent), the session has the hash, and the
\* fingerprints differ
IpDiffers(c) ==
  /\ c.req.present /\ c.req.ip # None /\ Truthy(c.before.rec.ip_hash)
  /\ c.before.rec.ip_hash # sha256_16(c.req.ip)
UaDiffers(c) ==
  /\ c.req.present /\ c.req.ua # None /\ Truthy(c.before.rec.ua_hash)
  /\ c.before.rec.ua_hash # sha256_16(c.req.ua)

\* The caller supplied neither an IP nor a User-Agent
NoBinding(req) == ~req.present \/ (req.ip = None /\ req.ua = None)

\* C1: a Validate of a session whose expires_at has passed returns Expired, with
\* no identity, and removes the session; a Validate of a session id that expiry
\* has removed returns NotFound.
C1_ValidateAfterExpiry ==
  last.op = "validate" =>
    /\ (last.before.found /\ last.before.rec.expires_at < now) =>
         /\ ValidateOutcome(last) = "expired"
         /\ last.ret.ident = NoIdent
         /\ last.sid \notin DOMAIN store
    /\ last.gone = "expired" => ValidateOutcome(last) = "not_found"

C1_Witness ==
  /\ last.op = "validate"
  /\ last.gone = "expired"
  /\ ValidateOutcome(last) = "not_found"

\* C2: a Validate of an unexpired session created with ip1, made with another
\* IP ip2, returns IpMismatch (no identity, no error) and the session is gone;
\* a Validate of a session id an IP mismatch has removed returns NotFound.
C2_IpMismatchDeletes ==
  last.op = "validate" =>
    /\ ( /\ Unexpired(last)
         /\ last.req.present /\ last.req.ip \in IPs
         /\ \E ip1 \in IPs \ {last.req.ip} : last.before.rec.ip_hash = sha256_16(ip1) )
       => /\ ValidateOutcome(last) = "ip_mismatch"
          /\ last.sid \notin DOMAIN store
    /\ last.gone = "ip_mismatch" => ValidateOutcome(last) = "not_found"

\* C3: Validate reports a mismatch only when the caller supplied the value, the
\* session has the hash and the fingerprints differ; a check that has nothing
\* to compare is skipped, and the session is neither rejected nor deleted.
C3_AbsentBindingSkipped ==
  (last.op = "validate" /\ Unexpired(last)) =>
    /\ ValidateOutcome(last) = "ip_mismatch" => IpDiffers(last)
    /\ ValidateOutcome(last) = "user_agent_mismatch" => UaDiffers(last)
    /\ (~IpDiffers(last) /\ ~UaDiffers(last)) =>
         /\ ValidateOutcome(last) = "identity"
         /\ last.sid \in DOMAIN store

\* C4: Delete of a stored session returns true and removes it, Delete of a
\* session id that is not stored (deleted before, or never stored) returns
\* false, and no Delete raises or returns an error.
C4_DeleteIdempotent ==
  last.op = "delete" =>
    /\ DeleteOutcome(last) = (IF last.before.found THEN "true" ELSE "false")
    /\ last.sid \notin DOMAIN store

\* C5: a Validate right after the Create of the session, with the request of
\* the Create or with no IP and no User-Agent, returns the identity
\* (user_id, email, name, picture) that was passed to Create.
C5_RoundTrip ==
  ( /\ last.op = "validate"
    /\ last.fresh.sid # 0
    /\ last.fresh.sid = last.sid
    /\ (last.req = last.fresh.req \/ NoBinding(last.req)) )
  => /\ ValidateOutcome(last) = "identity"
     /\ last.ret.ident = last.fresh.prof

C5_Witness ==
  /\ last.op = "validate"
  /\ last.fresh.sid # 0
  /\ last.fresh.sid = last.sid
  /\ last.req = last.fresh.req
  /\ last.req.ip # None
  /\ last.ret.ident.picture = None
  /\ ValidateOutcome(last) = "identity"

\* C6: a Validate of a session with expires_at <= now, the instant
\* now = expires_at included, returns Expired and deletes the session.
C6_ExpiredAtBoundary ==
  (last.op = "validate" /\ last.before.found /\ last.before.rec.expires_at <= now) =>
    /\ ValidateOutcome(last) = "expired"
    /\ last.sid \notin DOMAIN store

\* C7: a session id that was removed from the store never has a record in the
\* store again, and no Validate that begins after the removal returns an
\* identity, whatever validations were in flight when it was removed.
C7_DeletionTerminal ==
  /\ \A s \in DOMAIN removed : s \notin DOMAIN store
  /\ (last.op = "validate" /\ last.gone # None) => ValidateOutcome(last) # "identity"

\* C8: a Create, or a login, during which the store write fails hands out no
\* session id, and the session_id cookie always names a session that was stored.
C8_CreateFailureReported ==
  /\ (last.op \in {"create", "callback"} /\ last.fail) => last.ret.sid = 0
  /\ cookie # 0 => cookie \in DOMAIN store \cup DOMAIN removed

\* C9: what the caller of Validate gets when the store read fails differs from
\* what it gets when there is no such session.
CallerResult(impl, ret) == IF impl = "app" THEN ret ELSE validate_session_remote(ret)

C9_StoreFailureDistinct ==
  (last.op = "validate" /\ last.fail) =>
    CallerResult(last.impl, last.ret)
      # CallerResult(last.impl,
                     validate_session(last.impl, <<>>, last.sid, last.req, now, FALSE).ret)

\* C10: after the logout of a logged-in user whose cookie names a stored
\* session, the session is not in the store, the Flask session is cleared and
\* the user logged out, and the response has cleared the cookie.
C10_LogoutRemovesSession ==
  (last.op = "logout" /\ last.authed /\ last.before.found) =>
    /\ last.sid \notin DOMAIN store
    /\ flask_session = NoFlaskSession
    /\ cookie = 0
    /\ last.ret.flag

\* What the caller of the gate gets: User.get's return value, or what
\* get_user_session_remote makes of the function's response
UserGetResult(c) == IF c.impl = "app" THEN c.ret ELSE get_user_session_remote(c.ret)

\* C11: User.get(user_id) returns a User, of that user_id, exactly when the
\* store holds a session of user_id with expires_at later than now and the
\* store answers; otherwise (every session of the user expired or deleted, or
\* a store error) it returns None.
C11_UserGetGate ==
  last.op = "get" =>
    LET res == UserGetResult(last)
        live == \E s \in DOMAIN store :
                  store[s].user_id = last.prof.user_id /\ store[s].expires_at > now
    IN /\ res.kind = "User" <=> (live /\ ~last.fail)
       /\ res.kind = "User" => res.ident.user_id = last.prof.user_id
       /\ res.kind # "User" => res = RetNone

\* a user whose only stored session has expired
C11_Witness ==
  /\ last.op = "get"
  /\ ~last.fail
  /\ UserGetResult(last) = RetNone
  /\ \E s \in DOMAIN store :
       store[s].user_id = last.prof.user_id /\ store[s].expires_at <= now

\* The records a call writes: its audit events and its log lines
Records(c) == {c.events[i] : i \in DOMAIN c.events} \cup {c.logs[i] : i \in DOMAIN c.logs}

\* C12: no record written during Create, Validate or Delete shows more than the
\* first 8 characters of the session id.
C12_NoFullSessionIdLogged ==
  last.op \in {"create", "validate", "delete"} =>
    \A r \in Records(last) : r.sid # 0 => r.chars <= SESSION_ID_PARTIAL_LEN

\* The audit events of the session operations
SessionEventTypes ==
  {"session_created", "session_expired", "session_hijack_attempt", "session_deleted"}

\* C13: no audit event of a session operation (session created, session
\* expired, hijack attempt, session deleted) contains the raw client IP.
C13_NoRawIpInAudit ==
  \A i \in DOMAIN last.events :
    last.events[i].type \in SessionEventTypes => last.events[i].ip = None

\* C14: every Delete(session_id, reason) emits exactly one audit event, with
\* the reason supplied, and with the user_id of the session when the session
\* existed.
C14_DeleteAudited ==
  last.op = "delete" =>
    /\ Len(last.events) = 1
    /\ last.events[1].reason = last.reason
    /\ last.before.found => last.events[1].user_id = last.before.rec.user_id

\* C15: a Sweep that runs to its end deletes exactly the sessions whose
\* last_active is strictly older than now - 7 days, whatever their expires_at,
\* and leaves every other session as it was.
C15_SweepExact ==
  [][ (last'.op = "sweep" /\ last.op # "sweep" /\ ~last'.fail) =>
        /\ DOMAIN store' =
             {s \in DOMAIN store : ~(store[s].last_active < now - RETENTION_DAYS)}
        /\ \A s \in DOMAIN store' : store'[s] = store[s]
        /\ last'.ret.status = Cardinality(DOMAIN store \ DOMAIN store') ]_vars

\* a sweep has deleted an unexpired session and kept a session whose
\* last_active is the cutoff itself
C15_Witness ==
  /\ last.op = "sweep"
  /\ ~last.fail
  /\ last.ret.status > 0
  /\ \E s \in DOMAIN removed : removed[s] = "sweep"
  /\ now < SESSION_TTL_DAYS
  /\ \E s \in DOMAIN store : store[s].last_active = now - RETENTION_DAYS

\* What the caller of Create gets
CreateOutcome(c) ==
  IF c.impl = "app"
  THEN IF c.ret.kind = "str" THEN "session_id" ELSE "error"
  ELSE CASE c.ret.status = 201 -> "session_id"
         [] c.ret.status = 400 -> "missing_field"
         [] OTHER -> "error"

\* C16: a Create with an empty or missing user_id, email or name returns the
\* MissingField error and stores no session.
C16_MissingFieldRejected ==
  ( /\ last.op = "create"
    /\ ~(Truthy(last.prof.user_id) /\ Truthy(last.prof.email) /\ Truthy(last.prof.name)) )
  => /\ CreateOutcome(last) = "missing_field"
     /\ last.sid \notin DOMAIN store

\* The store with no session but sid
Only(st, sid) == [k \in DOMAIN st \cap {sid} |-> st[k]]

\* C17: a Create adds one session and leaves every stored session, of the same
\* user and of the others, present and unchanged; a Validate gives what it
\* would give were its session the only one, and touches no other session.
C17_MultipleSessions ==
  [][ /\ (last'.op = "create" /\ last.op # "create") =>
           /\ DOMAIN store' = DOMAIN store \cup {last'.sid}
           /\ last'.sid \notin DOMAIN store
           /\ \A s \in DOMAIN store : store'[s] = store[s]
      /\ (last'.op = "validate" /\ last.op # "validate") =>
           /\ last'.ret = validate_session(last'.impl, Only(store, last'.sid), last'.sid,
                                           last'.req, now, FALSE).ret
           /\ \A s \in DOMAIN store \ {last'.sid} :
                s \in DOMAIN store' /\ store'[s] = store[s] ]_vars

\* a second session of a user has been created while the first is stored
C17_Witness ==
  /\ last.op = "create"
  /\ last.sid \in DOMAIN store
  /\ \E s \in DOMAIN store \ {last.sid} : store[s].user_id = store[last.sid].user_id

\* C18: Validate checks existence, expiry, IP and User-Agent in this order and
\* stops at the first failure: an expired session yields Expired, with a
\* session-expired event and no hijack event, whatever its fingerprints; an
\* unexpired session whose IP and User-Agent both differ yields IpMismatch.
C18_CheckOrder ==
  (last.op = "validate" /\ last.before.found) =>
    /\ last.before.rec.expires_at < now =>
         /\ ValidateOutcome(last) = "expired"
         /\ \E i \in DOMAIN last.events : last.events[i].type = "session_expired"
         /\ \A i \in DOMAIN last.events : last.events[i].type # "session_hijack_attempt"
    /\ (Unexpired(last) /\ IpDiffers(last) /\ UaDiffers(last)) =>
         ValidateOutcome(last) = "ip_mismatch"

\* C19: a Validate that returns the identity sets last_active of its session
\* to now and changes nothing else in the store.
C19_TouchOnlyLastActive ==
  [][ ( /\ last'.op = "validate" /\ last.op # "validate"
        /\ ValidateOutcome(last') = "identity" )
      => /\ last'.sid \in DOMAIN store
         /\ store' = [store EXCEPT ![last'.sid].last_active = now] ]_vars

\* a validation has moved last_active and left expires_at where it was
C19_Witness ==
  /\ last.op = "validate"
  /\ ValidateOutcome(last) = "identity"
  /\ last.sid \in DOMAIN store
  /\ store[last.sid].last_active = now
  /\ store[last.sid].last_active > last.before.rec.last_active
  /\ store[last.sid].expires_at = store[last.sid].created_at + SESSION_TTL_DAYS
  /\ \E s \in DOMAIN store : s # last.sid

Mismatches == {"ip_mismatch", "user_agent_mismatch"}

\* C20: when two validations of a session run at the same time and both find a
\* fingerprint mismatch, the delete of the second changes nothing, the second
\* returns its mismatch (no identity, no error) and the session is not in the
\* store.
C20_ConcurrentMismatch ==
  [][ \A p \in Procs :
        ( /\ procs[p].pc = "delete"
          /\ procs'[p].pc = "idle"
          /\ procs[p].path \in Mismatches
          /\ procs[p].gone = None
          /\ procs[p].sid \in DOMAIN removed
          /\ removed[procs[p].sid] \in Mismatches )
        => /\ store' = store
           /\ procs[p].sid \notin DOMAIN store'
           /\ ValidateOutcome(last') = procs[p].path ]_vars

\* C21: a Create stores created_at = last_active, and every stored session has
\* expires_at = created_at + 30 days, also when the clock moves during Create.
C21_CreateTimestamps ==
  /\ \A s \in DOMAIN store : store[s].expires_at = store[s].created_at + SESSION_TTL_DAYS
  /\ (last.op = "create" /\ last.sid \in DOMAIN store) =>
       store[last.sid].last_active = store[last.sid].created_at

\* The fingerprint Create is to store for an input: the hash when the input
\* is present, absent otherwise
Fingerprint(x) == IF Truthy(x) THEN sha256_16(x) ELSE None

\* C22: Create stores ip_hash (ua_hash) as the fingerprint of the client IP
\* (User-Agent) exactly when that input is present and as absent otherwise: a
\* request with an IP and no User-Agent gives a session with an ip_hash and no
\* ua_hash.
C22_FingerprintsWhenPresent ==
  (last.op = "create" /\ last.sid \in DOMAIN store) =>
    /\ store[last.sid].ip_hash = Fingerprint(last.req.ip)
    /\ store[last.sid].ua_hash = Fingerprint(last.req.ua)

\* How many of the Datastore calls of a completed call are of kind k
RECURSIVE CountCalls(_, _)
CountCalls(calls, k) ==
  IF calls = <<>> THEN 0
  ELSE (IF calls[1] = k THEN 1 ELSE 0) + CountCalls(Tail(calls), k)

\* C23: a Validate makes exactly one read and at most one write or delete, a
\* Create exactly one write, a Delete of a stored session one read and one delete.
C23_StoreAccesses ==
  /\ last.op = "validate" =>
       /\ CountCalls(last.calls, "get") = 1
       /\ CountCalls(last.calls, "put") + CountCalls(last.calls, "delete") <= 1
  /\ (last.op = "create" /\ CreateOutcome(last) = "session_id") =>
       /\ CountCalls(last.calls, "put") = 1
       /\ CountCalls(last.calls, "get") + CountCalls(last.calls, "delete") = 0
  /\ (last.op = "delete" /\ last.before.found) =>
       /\ CountCalls(last.calls, "get") = 1
       /\ CountCalls(last.calls, "delete") = 1

\* C24: every session whose expires_at has passed is eventually removed from the
\* store when the Sweep keeps being run, whether or not anyone validates it.
C24_ExpiredEventuallyRemoved ==
  \A sid \in SIDs :
    (sid \in DOMAIN store /\ store[sid].expires_at < now) ~> (sid \notin DOMAIN store)

\* A Sweep has just removed a session, at a time when every session created
\* has expired
C24_Witness ==
  /\ last.op = "sweep"
  /\ ~last.fail
  /\ last.ret.status >= 1
  /\ now > LiveSlack + SESSION_TTL_DAYS

\* C25: when a batch delete fails part-way through a Sweep, the batches deleted
\* before it stay deleted, the sessions the Sweep did not get to remain
\* unchanged and the Sweep reports an error; a Sweep that completes afterwards
\* leaves no session that is stale at its cutoff.
C25_SweepFailsPartWay ==
  [][ (sweep.pc = "batch" /\ sweep' # sweep) =>
        /\ (last'.op = "sweep" /\ last'.fail) =>
             /\ last'.ret.reason = "error"
             /\ \A k \in sweep.deleted : k \notin DOMAIN store'
             /\ \A k \in sweep'.left :
                  k \in DOMAIN store => (k \in DOMAIN store' /\ store'[k] = store[k])
        /\ (last'.op = "sweep" /\ ~last'.fail) =>
             /\ last'.ret.reason = "success"
             /\ \A k \in DOMAIN store' : store'[k].last_active >= sweep.cutoff
             /\ \A i \in DOMAIN sweep.keys : sweep.keys[i] \notin DOMAIN store' ]_vars

\* A Sweep failed after its first batch and left a session unprocessed; a later
\* Sweep has completed and has removed what was left
C25_Witness ==
  /\ last.op = "sweep"
  /\ ~last.fail
  /\ sweep.early # {}
  /\ sweep.left # {}
  /\ \A k \in sweep.left : k \notin DOMAIN store /\ GoneBy(k) = "sweep"

\* The input of the validate_session function that carries what an in-process
\* request carries: the same address and User-Agent, or neither
SameInput(req) == IF req.present THEN req ELSE Req(None, None)

\* C26: User.validate_session and the validate_session function are one state
\* machine: for every stored state and input, the in-process validation has the
\* outcome and leaves the store that the function would.
C26_SameStateMachine ==
  [][ (last'.op = "validate" /\ last.op # "validate" /\ last'.impl = "app") =>
        LET cf == cf_validate_session(store, last'.sid, SameInput(last'.req), now, FALSE)
        IN /\ ValidateOutcome(last')
                = ValidateOutcome([impl |-> "cf", ret |-> cf.ret, events |-> cf.events])
           /\ store' = cf.store ]_vars

\* C27: under rate_limit_with_logging(N, W), once N requests of one address
\* and path were let through within the last W seconds, the next is answered
\* 429, the handler is not run and a suspicious-activity violation is logged;
\* attempts older than W seconds do not count.
C27_RateLimited ==
  [][ (last'.op = "request" /\ last.op # "request") =>
        LET key == <<last'.req.ip, last'.reason>>
            recent == Recent(rate.accepted[key], now - RateWindow)
        IN IF Len(recent) >= RateAttempts
           THEN /\ last'.ret.status = 429
                /\ rate'.accepted[key] = rate.accepted[key]
                /\ \E i \in DOMAIN last'.events :
                     last'.events[i].type = "suspicious_activity"
           ELSE /\ last'.ret.status = 200
                /\ rate'.accepted[key] = Append(rate.accepted[key], now) ]_vars

C29_SweepSparesValidated ==
  [][ (sweep.pc = "batch" /\ sweep' # sweep) =>
        \A k \in DOMAIN store \ DOMAIN store' : store[k].last_active < sweep.cutoff ]_vars

\* The paths of a validation that reject a stored session
RejectingPaths == {"expired", "ip_mismatch", "user_agent_mismatch"}

\* C30: on every rejecting path of a Validate (expiry or mismatch) the session
\* is deleted before the event is emitted: the session is gone after the call,
\* also when emitting raised, and every emit follows a delete.
C30_DeleteBeforeEmit ==
  ( /\ last.op = "validate"
    /\ last.before.found
    /\ validate_path(last.impl, last.before, last.req, now) \in RejectingPaths )
  => /\ last.sid \notin DOMAIN store
     /\ \E j \in DOMAIN last.calls : last.calls[j] = "emit"
     /\ \A j \in DOMAIN last.calls :
          last.calls[j] = "emit" => \E i \in 1..(j - 1) : last.calls[i] = "delete"

C30_Witness ==
  /\ last.op = "validate"
  /\ last.before.found
  /\ validate_path(last.impl, last.before, last.req, now) \in RejectingPaths
  /\ last.ret.kind = "raise"
  /\ last.sid \notin DOMAIN store
====
